---------------------------- MODULE Spec2Model ----------------------------
(***************************************************************************)
(* A model of the magellanicus renderer: its construction and asset        *)
(* registry (src/magellanicus/src/renderer.rs), its BSP parameter          *)
(* validation (renderer/parameters/bsp.rs), the pipeline catalog           *)
(* (renderer/vulkan/pipeline), and the frame composer and swapchain        *)
(* lifecycle (renderer/vulkan.rs).                                         *)
(*                                                                         *)
(* Option<T> is modelled as a sequence of length at most one: None is the  *)
(* empty sequence and Some(x) is <<x>>.  A BTreeMap is a function whose    *)
(* DOMAIN is its key set.  Result values are the strings "Ok",             *)
(* "DataError", "GraphicsAPIError", "true", "false" (draw_frame's          *)
(* Ok(bool)) and "panic" (an unwinding panic: the renderer is not used     *)
(* afterwards).  Relative screen coordinates (f32 in 0.0..1.0) are fixed   *)
(* point numbers: 1.0 is One.                                              *)
(*                                                                         *)
(* The specifications share the actions: Spec (the registry of a           *)
(* constructed renderer), SpecLifecycle (construction, frames and the      *)
(* swapchain, from before Renderer::new), SpecViewports (the frame         *)
(* composer of a renderer whose viewports are populated), SpecSky (the     *)
(* frame composer over a BSP with clusters and a sky), SpecGpu (the        *)
(* selection of the physical device over the machines tried) and           *)
(* SpecPipelines (load_pipeline over all pipeline settings).               *)
(***************************************************************************)
EXTENDS Integers, Sequences, FiniteSets, TLC

VARIABLES
    bitmaps,          \* Renderer::bitmaps   : path -> Bitmap
    shaders,          \* Renderer::shaders   : path -> Shader
    geometries,       \* Renderer::geometries: path -> Geometry
    skies,            \* Renderer::skies     : path -> Sky
    bsps,             \* Renderer::bsps      : path -> BSP
    current_bsp,      \* Renderer::current_bsp : Option<path>
    player_viewports, \* Renderer::player_viewports : Vec<PlayerViewport>
    future,           \* VulkanRenderer::future : Option<in-flight future>
    last,             \* the last call made on the renderer, what it returned,
                      \* the commands it recorded and what it submitted
    number_of_viewports,   \* RendererParameters::number_of_viewports given to new
    pipelines,             \* VulkanRenderer::pipelines : type -> pipeline
    swapchain,             \* VulkanRenderer::swapchain, as its create info
    swapchain_images,      \* VulkanRenderer::swapchain_images
    swapchain_image_views, \* VulkanRenderer::swapchain_image_views
    current_resolution,    \* VulkanRenderer::current_resolution
    physical_devices,      \* VulkanRenderer::instance, as the physical devices
                           \* it enumerates
    device                 \* VulkanRenderer::device and queue: the physical
                           \* device chosen and its queue family

\* The fields of VulkanRenderer other than the in-flight future.
backend ==
    <<pipelines, swapchain, swapchain_images, swapchain_image_views,
      current_resolution, physical_devices, device>>

vars == <<bitmaps, shaders, geometries, skies, bsps, current_bsp,
          player_viewports, future, last, number_of_viewports, backend>>

registry == <<bitmaps, shaders, geometries, skies, bsps>>

-----------------------------------------------------------------------------
(* Bounds of the inputs. *)

\* Largest number of sub-bitmaps of an added bitmap; lightmap indices range
\* over 0..MaxSubBitmaps, so the largest index is always out of range.
MaxSubBitmaps == 2

\* Largest vertex count of a BSP material: shader_vertices has 1..MaxVertices
\* vertices and lightmap_vertices, when present, 0..MaxVertices.
MaxVertices == 1

\* The asset paths the caller uses.  One namespace: every add_* call, every
\* dependency and set_current_bsp draw their paths from this set.
Paths == {"b", "m"}

\* The paths add_shader is called with.
ShaderPaths == {"m"}

\* The paths add_bsp is called with.
BspPaths == {"m"}

\* lightmap_sets.len() and materials.len() of the BSP parameters tried.
LightmapSetCounts == {0, 1}

MaterialCounts == {0, 1}

-----------------------------------------------------------------------------
(* Constants of the program. *)

\* Renderer::new: (1..=4).contains(&parameters.number_of_viewports)
MinViewports == 1

MaxViewports == 4

\* build_swapchain: surface_capabilities.min_image_count.max(2)
MinImageCount == 2

\* draw_split_screen_bars: base_thickness and the 640 x 480 the scale refers to
BaseThickness == 2

ReferenceWidth == 640

ReferenceHeight == 480

\* draw_box: draw_indexed(6, 1, 0, 0, 0)
BoxIndexCount == 6

\* The relative coordinate 1.0.  A multiple of both reference lengths, so
\* that the thickness of the bars is computed without rounding for the
\* resolutions below.
One == ReferenceWidth * ReferenceHeight

\* find_best_gpu: Version::V1_2 and Version::V1_3, as 10 * major + minor
V1_2 == 12

V1_3 == 13

\* find_best_gpu: the key of the device types its match does not name.  The
\* code's u32::MAX is beyond the integers of the model checker; the greatest
\* integer it has stands for it, as only the order of the keys matters.
KeyMax == 2147483647

-----------------------------------------------------------------------------
(* Option<T> *)

None == << >>

Some(x) == <<x>>

IsSome(o) == o # None

Unwrap(o) == o[1]

OptionOf(S) == {None} \cup {Some(x) : x \in S}

SeqsOfLen(S, counts) == UNION {[1..n -> S] : n \in counts}

\* BTreeMap::insert: the value under an existing key is replaced.
Insert(map, key, value) ==
    [k \in DOMAIN map \cup {key} |-> IF k = key THEN value ELSE map[k]]

EmptyMap == << >>

Min(a, b) == IF a <= b THEN a ELSE b

Max(a, b) == IF a >= b THEN a ELSE b

-----------------------------------------------------------------------------
(* Parameters of the calls. *)

\* AddBitmapParameter: the number of sub-bitmaps and whether the parameter
\* passes AddBitmapParameter::validate.
AddBitmapParameters == [bitmaps : 1..MaxSubBitmaps, valid : BOOLEAN]

\* AddShaderParameter: the base bitmap of the shader and whether its kind is
\* a transparent one.  The shaders of Spec are opaque.
AddShaderParameters == [bitmap : OptionOf(Paths), transparent : {FALSE}]

AddBSPParameterLightmapMaterials ==
    [shader_vertices : 1..MaxVertices,
     lightmap_vertices : OptionOf(0..MaxVertices),
     shader : Paths]

AddBSPParameterLightmapSets ==
    [lightmap_index : OptionOf(0..MaxSubBitmaps),
     materials : SeqsOfLen(AddBSPParameterLightmapMaterials, MaterialCounts)]

AddBSPParameters ==
    [lightmap_bitmap : OptionOf(Paths),
     lightmap_sets : SeqsOfLen(AddBSPParameterLightmapSets, LightmapSetCounts)]

\* Resolution { width, height }
Resolutions ==
    {[width |-> 640, height |-> 480], [width |-> 320, height |-> 240]}

\* RendererParameters, with numbers of viewports on both sides of 1..=4.
RendererParameters ==
    [resolution : Resolutions,
     number_of_viewports : (MinViewports - 1)..(MaxViewports + 1),
     vsync : BOOLEAN]

\* surface_capabilities.min_image_count of the surfaces tried.
SurfaceMinImageCounts == {1, 3}

\* What VulkanRenderer::new comes to: Ok, or the step whose error the ?
\* operator returns (load_vulkan_and_get_queue, build_swapchain,
\* load_all_pipelines, Sampler::new).
BackendResults ==
    {"Ok", "LoadVulkanError", "BuildSwapchainError", "LoadPipelinesError",
     "SamplerError"}

\* PhysicalDeviceType; "Other" stands for the types find_best_gpu's match
\* does not name.
PhysicalDeviceTypes ==
    {"DiscreteGpu", "IntegratedGpu", "VirtualGpu", "Cpu", "Other"}

\* The device extensions the physical devices tried may support.
DeviceExtensionNames ==
    {"khr_swapchain", "ext_extended_dynamic_state", "khr_dynamic_rendering"}

\* The features of a physical device of this API version that supports
\* these extensions: dynamic rendering and the extended dynamic state come
\* with Vulkan 1.3 or with their extension.
FeaturesOf(api_version, extensions, sampler_anisotropy) ==
    (IF sampler_anisotropy THEN {"sampler_anisotropy"} ELSE {})
    \cup (IF api_version >= V1_3 \/ "khr_dynamic_rendering" \in extensions
            THEN {"dynamic_rendering"} ELSE {})
    \cup (IF api_version >= V1_3 \/ "ext_extended_dynamic_state" \in extensions
            THEN {"extended_dynamic_state"} ELSE {})

\* A queue family: whether it has QueueFlags::GRAPHICS and whether
\* surface_support reports that it can present to the surface.
QueueFamily(graphics, present) == [graphics |-> graphics, present |-> present]

\* device.queue_family_properties() of the devices tried: none, one family
\* that does both, such a family after a graphics-only one, and graphics and
\* present in separate families.
QueueFamilyLists ==
    {<< >>,
     <<QueueFamily(TRUE, TRUE)>>,
     <<QueueFamily(TRUE, FALSE), QueueFamily(TRUE, TRUE)>>,
     <<QueueFamily(TRUE, FALSE), QueueFamily(FALSE, TRUE)>>}

\* A physical device as find_best_gpu sees it.
PhysicalDevice(api_version, device_type, extensions, sampler_anisotropy, queue_families) ==
    [api_version |-> api_version,
     device_type |-> device_type,
     supported_features |-> FeaturesOf(api_version, extensions, sampler_anisotropy),
     supported_extensions |-> extensions,
     queue_families |-> queue_families]

\* The physical devices tried alone: every API version, set of extensions
\* and list of queue families, with and without sampler anisotropy.
PhysicalDevices ==
    {PhysicalDevice(api_version, "DiscreteGpu", extensions, sampler_anisotropy,
                    queue_families) :
        api_version \in {V1_2 - 1, V1_2, V1_3},
        extensions \in SUBSET DeviceExtensionNames,
        sampler_anisotropy \in BOOLEAN,
        queue_families \in QueueFamilyLists}

\* The physical devices tried in pairs, of every device type: a Vulkan 1.3
\* device, a Vulkan 1.2 device without khr_dynamic_rendering, and a Vulkan
\* 1.2 device with it whose second queue family is the one that presents.
PairedPhysicalDevices ==
    {PhysicalDevice(V1_3, device_type, DeviceExtensionNames, TRUE,
                    <<QueueFamily(TRUE, TRUE)>>) :
        device_type \in PhysicalDeviceTypes}
    \cup {PhysicalDevice(V1_2, device_type,
                         {"khr_swapchain", "ext_extended_dynamic_state"}, TRUE,
                         <<QueueFamily(TRUE, TRUE)>>) :
            device_type \in PhysicalDeviceTypes}
    \cup {PhysicalDevice(V1_2, device_type, DeviceExtensionNames, TRUE,
                         <<QueueFamily(TRUE, FALSE), QueueFamily(TRUE, TRUE)>>) :
            device_type \in PhysicalDeviceTypes}

\* instance.enumerate_physical_devices() of the machines tried.
Machines ==
    {<< >>}
    \cup {<<d>> : d \in PhysicalDevices}
    \cup {<<d, e>> : d \in PairedPhysicalDevices, e \in PairedPhysicalDevices}

\* The machine flycam-test runs on: one discrete Vulkan 1.3 GPU.
FlycamMachine ==
    <<PhysicalDevice(V1_3, "DiscreteGpu", DeviceExtensionNames, TRUE,
                     <<QueueFamily(TRUE, TRUE)>>)>>

-----------------------------------------------------------------------------
(* The pipeline catalog *)

\* The settings SolidColorShader::new passes to load_pipeline.
SolidColorSettings ==
    [depth_access |-> "DepthWrite",
     vertex_buffer_descriptions |-> <<"VulkanModelVertex">>,
     blend |-> "none"]

\* The settings SimpleTextureShader::new passes to load_pipeline.
SimpleTextureSettings ==
    [depth_access |-> "DepthReadOnlyTransparent",
     vertex_buffer_descriptions |->
        <<"VulkanModelVertex", "VulkanModelVertexTextureCoords",
          "VulkanModelVertexLightmapTextureCoords">>,
     blend |-> "additive"]

\* A load_pipeline that compares for equality in both read-only modes.
LoadPipelineReadOnlyEqual(settings) ==
    [depth_access |-> settings.depth_access,
     depth |->
        [write_enable |-> settings.depth_access = "DepthWrite",
         compare_op |->
            CASE settings.depth_access = "DepthWrite" -> "LessOrEqual"
              [] settings.depth_access = "DepthReadOnly" -> "Equal"
              [] settings.depth_access = "DepthReadOnlyTransparent" -> "Equal"
              [] settings.depth_access = "NoDepth" -> "Always"],
     vertex_buffer_descriptions |-> settings.vertex_buffer_descriptions,
     blend |-> settings.blend,
     front_face |-> "Clockwise"]

\* load_pipeline: the depth state follows from the depth access of the
\* settings; front faces are clockwise, the cull mode is dynamic.
LoadPipeline(settings) ==
    [depth_access |-> settings.depth_access,
     depth |->
        [write_enable |-> settings.depth_access = "DepthWrite",
         compare_op |->
            CASE settings.depth_access = "DepthWrite" -> "LessOrEqual"
              [] settings.depth_access = "DepthReadOnly" -> "Equal"
              [] settings.depth_access = "DepthReadOnlyTransparent" -> "LessOrEqual"
              [] settings.depth_access = "NoDepth" -> "Always"],
     vertex_buffer_descriptions |-> settings.vertex_buffer_descriptions,
     blend |-> settings.blend,
     front_face |-> "Clockwise"]

VulkanPipelineTypes == {"ColorBox", "SimpleTexture"}

\* load_all_pipelines: the solid colour shader is the ColorBox pipeline, the
\* simple texture shader the SimpleTexture pipeline.
LoadAllPipelines ==
    [type \in VulkanPipelineTypes |->
        IF type = "ColorBox" THEN LoadPipeline(SolidColorSettings)
        ELSE LoadPipeline(SimpleTextureSettings)]

-----------------------------------------------------------------------------
(* The swapchain *)

\* build_swapchain: the create info of the swapchain of a new renderer.
BuildSwapchain(parameters, surface_min_image_count) ==
    [min_image_count |-> Max(surface_min_image_count, MinImageCount),
     image_extent |-> <<parameters.resolution.width, parameters.resolution.height>>,
     image_usage |-> {"COLOR_ATTACHMENT", "TRANSFER_DST"},
     present_mode |-> IF parameters.vsync THEN "Fifo" ELSE "Immediate"]

\* Swapchain::recreate with the create info rebuild_swapchain passes: the
\* image extent of the parameters, every other field of the old create info.
Recreate(create_info, parameters) ==
    [create_info EXCEPT
        !.image_extent = <<parameters.resolution.width, parameters.resolution.height>>]

\* The images a swapchain is created with: min_image_count of them, of the
\* swapchain's extent.
ImagesOf(create_info) ==
    [i \in 1..create_info.min_image_count |->
        [index |-> i, extent |-> create_info.image_extent]]

\* swapchain_images.iter().map(ImageView::new_default).collect()
ImageViewsOf(images) == [i \in 1..Len(images) |-> [image |-> images[i]]]

-----------------------------------------------------------------------------
(* The physical device *)

\* load_vulkan_and_get_queue: required_device_features
RequiredDeviceFeatures(anisotropic_filtering) ==
    IF anisotropic_filtering THEN {"sampler_anisotropy"} ELSE {}

\* load_vulkan_and_get_queue: device_extensions_all, which find_best_gpu
\* takes as device_extensions_13
DeviceExtensionsAll == {"khr_swapchain"}

\* load_vulkan_and_get_queue: device_extensions_12
DeviceExtensions12 == DeviceExtensionsAll \cup {"ext_extended_dynamic_state"}

\* load_vulkan_and_get_queue: optional_extensions_all, which find_best_gpu
\* takes as optional_extensions_13
OptionalExtensionsAll == {}

\* load_vulkan_and_get_queue: optional_extensions_12
OptionalExtensions12 == {"ext_4444_formats", "khr_dynamic_rendering"}

\* find_best_gpu, the first filter_map: the extensions to enable on a device,
\* None for a device that is passed over.
ExtensionsToEnable(d) ==
    IF d.api_version >= V1_3
      THEN IF DeviceExtensionsAll \subseteq d.supported_extensions
             THEN Some(DeviceExtensionsAll
                       \cup (d.supported_extensions \cap OptionalExtensionsAll))
             ELSE None
    ELSE IF d.api_version >= V1_2
      THEN IF DeviceExtensions12 \subseteq d.supported_extensions
             THEN Some(DeviceExtensions12
                       \cup (d.supported_extensions \cap OptionalExtensions12))
             ELSE None
    ELSE None

\* find_best_gpu, the second filter_map: the position (from 0) of the first
\* queue family that has graphics and can present to the surface.
QueueFamilyPosition(d) ==
    LET suitable ==
            {i \in 1..Len(d.queue_families) :
                d.queue_families[i].graphics /\ d.queue_families[i].present}
    IN  IF suitable = {} THEN None
        ELSE Some((CHOOSE i \in suitable : \A j \in suitable : i <= j) - 1)

\* A key that puts integrated GPUs first.
DeviceTypeKeyIntegratedFirst(device_type) ==
    CASE device_type = "IntegratedGpu" -> 0
      [] device_type = "DiscreteGpu" -> 1
      [] device_type = "VirtualGpu" -> 2
      [] device_type = "Cpu" -> 3
      [] OTHER -> KeyMax

\* find_best_gpu: the key of min_by_key.
DeviceTypeKey(device_type) ==
    CASE device_type = "DiscreteGpu" -> 0
      [] device_type = "IntegratedGpu" -> 1
      [] device_type = "VirtualGpu" -> 2
      [] device_type = "Cpu" -> 3
      [] OTHER -> KeyMax

\* find_best_gpu: of the devices that pass the three filters the first one
\* of the least key, with its queue family and the extensions to enable.
FindBestGpu(devices, anisotropic_filtering) ==
    LET candidates ==
            {i \in 1..Len(devices) :
                /\ RequiredDeviceFeatures(anisotropic_filtering)
                      \subseteq devices[i].supported_features
                /\ IsSome(ExtensionsToEnable(devices[i]))
                /\ IsSome(QueueFamilyPosition(devices[i]))}
        Key(i) == DeviceTypeKey(devices[i].device_type)
    IN  IF candidates = {} THEN None
        ELSE LET best ==
                     CHOOSE i \in candidates :
                         \A j \in candidates :
                             Key(i) < Key(j) \/ (Key(i) = Key(j) /\ i <= j)
             IN  Some([physical_device |-> best,
                       queue_family_index |->
                           Unwrap(QueueFamilyPosition(devices[best])),
                       device_extensions |->
                           Unwrap(ExtensionsToEnable(devices[best]))])

\* create_device_and_queues: the features Device::new is asked to enable.
EnabledFeatures(device_extensions) ==
    {"extended_dynamic_state", "sampler_anisotropy"}
    \cup (IF "khr_dynamic_rendering" \in device_extensions
            THEN {"dynamic_rendering"} ELSE {})

\* load_vulkan_and_get_queue on the machine's devices: the physical device
\* and queue family of the device created, None when no device is suitable
\* or Device::new refuses a feature the device does not support.
LoadVulkanAndGetQueue(anisotropic_filtering) ==
    LET best == FindBestGpu(physical_devices, anisotropic_filtering)
    IN  IF ~IsSome(best) THEN None
        ELSE IF ~(EnabledFeatures(Unwrap(best).device_extensions) \subseteq
                    physical_devices[Unwrap(best).physical_device].supported_features)
        THEN None
        ELSE Some([physical_device |-> Unwrap(best).physical_device,
                   queue_family_index |-> Unwrap(best).queue_family_index])

-----------------------------------------------------------------------------
(* Construction *)

\* The device flycam-test's renderer runs on: the first queue family of the
\* machine's GPU.
FlycamDevice == [physical_device |-> 1, queue_family_index |-> 0]

\* What device holds while there is no renderer; no action reads it.
NoDevice == [physical_device |-> 0, queue_family_index |-> 0]

\* Renderer::new leaves player_viewports empty ("TODO: add player viewports").
NewPlayerViewports == << >>

\* The parameters the flycam-test harness constructs its renderer with.
FlycamParameters ==
    [resolution |-> [width |-> 640, height |-> 480],
     number_of_viewports |-> 1,
     vsync |-> TRUE]

\* The renderer Renderer::new(FlycamParameters, ..) returns.
Init ==
    /\ bitmaps = EmptyMap
    /\ shaders = EmptyMap
    /\ geometries = EmptyMap
    /\ skies = EmptyMap
    /\ bsps = EmptyMap
    /\ current_bsp = None
    /\ player_viewports = NewPlayerViewports
    /\ future = Some("now")
    /\ last = [op |-> "new", result |-> "Ok", commands |-> << >>, submitted |-> None]
    /\ number_of_viewports = FlycamParameters.number_of_viewports
    /\ pipelines = LoadAllPipelines
    /\ swapchain = BuildSwapchain(FlycamParameters, MinImageCount)
    /\ swapchain_images = ImagesOf(swapchain)
    /\ swapchain_image_views = ImageViewsOf(swapchain_images)
    /\ current_resolution = FlycamParameters.resolution
    /\ physical_devices = FlycamMachine
    /\ device = FlycamDevice

Panicked == last.result = "panic"

\* A call that returns result, records no command and submits nothing.
Return(op, result) ==
    last' = [op |-> op, result |-> result, commands |-> << >>, submitted |-> None]

\* A reset that forgets to clear current_bsp.
ResetKeepsCurrentBsp ==
    /\ ~Panicked
    /\ bitmaps' = EmptyMap
    /\ shaders' = EmptyMap
    /\ geometries' = EmptyMap
    /\ skies' = EmptyMap
    /\ bsps' = EmptyMap
    /\ Return("reset", "Ok")
    /\ UNCHANGED <<current_bsp, player_viewports, future,
                 number_of_viewports, backend>>

\* A reset that forgets to clear the BSPs.
ResetKeepsBsps ==
    /\ ~Panicked
    /\ bitmaps' = EmptyMap
    /\ shaders' = EmptyMap
    /\ geometries' = EmptyMap
    /\ skies' = EmptyMap
    /\ current_bsp' = None
    /\ Return("reset", "Ok")
    /\ UNCHANGED <<bsps, player_viewports, future, number_of_viewports, backend>>

\* Renderer::reset
Reset ==
    /\ ~Panicked
    /\ bitmaps' = EmptyMap
    /\ shaders' = EmptyMap
    /\ geometries' = EmptyMap
    /\ skies' = EmptyMap
    /\ bsps' = EmptyMap
    /\ current_bsp' = None
    /\ Return("reset", "Ok")
    /\ UNCHANGED <<player_viewports, future, number_of_viewports, backend>>

-----------------------------------------------------------------------------
(* add_bitmap *)

\* AddBitmapParameter::validate
BitmapValidate(bitmap) == bitmap.valid

\* Bitmap::load_from_parameters: the stored record keeps the sub-bitmaps.
BitmapLoadFromParameters(bitmap) == [bitmaps |-> bitmap.bitmaps]

\* Renderer::add_bitmap.  gpu_ok: whether creating the GPU images succeeds.
AddBitmap(path, bitmap, gpu_ok) ==
    /\ ~Panicked
    /\ IF path \in DOMAIN bsps
         THEN /\ Return("add_bitmap", "DataError")
              /\ UNCHANGED bitmaps
         ELSE IF ~BitmapValidate(bitmap)
         THEN /\ Return("add_bitmap", "DataError")
              /\ UNCHANGED bitmaps
         ELSE IF ~gpu_ok
         THEN /\ Return("add_bitmap", "GraphicsAPIError")
              /\ UNCHANGED bitmaps
         ELSE /\ bitmaps' = Insert(bitmaps, path, BitmapLoadFromParameters(bitmap))
              /\ Return("add_bitmap", "Ok")
    /\ UNCHANGED <<shaders, geometries, skies, bsps, current_bsp,
                   player_viewports, future,
                   number_of_viewports, backend>>

-----------------------------------------------------------------------------
(* add_shader *)

\* AddShaderParameter::validate: the base bitmap, when given, is loaded.
ShaderValidate(shader) ==
    IsSome(shader.bitmap) => Unwrap(shader.bitmap) \in DOMAIN bitmaps

\* VulkanSimpleShaderMaterial::new indexes renderer.bitmaps[b]: a panic when
\* b is not a key.
MaterialNewPanics(shader) ==
    IsSome(shader.bitmap) /\ Unwrap(shader.bitmap) \notin DOMAIN bitmaps

\* Shader::load_from_parameters: the stored record keeps the bitmap path and
\* the transparency of the shader's kind.
ShaderLoadFromParameters(shader) ==
    [bitmap |-> shader.bitmap, transparent |-> shader.transparent]

\* An add_shader that does not call validate before building the material.
AddShaderSkipsValidate(path, shader, gpu_ok) ==
    /\ ~Panicked
    /\ IF path \in DOMAIN bsps
         THEN /\ Return("add_shader", "DataError")
              /\ UNCHANGED shaders
         ELSE IF MaterialNewPanics(shader)
         THEN /\ Return("add_shader", "panic")
              /\ UNCHANGED shaders
         ELSE IF ~gpu_ok
         THEN /\ Return("add_shader", "GraphicsAPIError")
              /\ UNCHANGED shaders
         ELSE /\ shaders' = Insert(shaders, path, ShaderLoadFromParameters(shader))
              /\ Return("add_shader", "Ok")
    /\ UNCHANGED <<bitmaps, geometries, skies, bsps, current_bsp,
                   player_viewports, future,
                   number_of_viewports, backend>>

\* Renderer::add_shader.  gpu_ok: whether creating the image view and the
\* sampler succeeds.
AddShader(path, shader, gpu_ok) ==
    /\ ~Panicked
    /\ IF path \in DOMAIN bsps
         THEN /\ Return("add_shader", "DataError")
              /\ UNCHANGED shaders
         ELSE IF ~ShaderValidate(shader)
         THEN /\ Return("add_shader", "DataError")
              /\ UNCHANGED shaders
         ELSE IF MaterialNewPanics(shader)
         THEN /\ Return("add_shader", "panic")
              /\ UNCHANGED shaders
         ELSE IF ~gpu_ok
         THEN /\ Return("add_shader", "GraphicsAPIError")
              /\ UNCHANGED shaders
         ELSE /\ shaders' = Insert(shaders, path, ShaderLoadFromParameters(shader))
              /\ Return("add_shader", "Ok")
    /\ UNCHANGED <<bitmaps, geometries, skies, bsps, current_bsp,
                   player_viewports, future,
                   number_of_viewports, backend>>

-----------------------------------------------------------------------------
(* add_geometry, add_sky: todo!() *)

\* Renderer::add_geometry
AddGeometry(path) ==
    /\ ~Panicked
    /\ Return("add_geometry", "panic")
    /\ UNCHANGED <<bitmaps, shaders, geometries, skies, bsps, current_bsp,
                   player_viewports, future,
                   number_of_viewports, backend>>

\* Renderer::add_sky
AddSky(path) ==
    /\ ~Panicked
    /\ Return("add_sky", "panic")
    /\ UNCHANGED <<bitmaps, shaders, geometries, skies, bsps, current_bsp,
                   player_viewports, future,
                   number_of_viewports, backend>>

-----------------------------------------------------------------------------
(* add_bsp *)

\* AddBSPParameter::validate, the lookup of the lightmap bitmap: an error
\* when a lightmap bitmap is named and is not loaded.
LightmapBitmapError(bsp) ==
    /\ IsSome(bsp.lightmap_bitmap)
    /\ Unwrap(bsp.lightmap_bitmap) \notin DOMAIN bitmaps

\* AddBSPParameter::validate, the check of one lightmap set's bitmap index.
LightmapIndexError(bsp, lightmap) ==
    /\ IsSome(lightmap.lightmap_index)
    /\ \/ ~IsSome(bsp.lightmap_bitmap)
       \/ Unwrap(lightmap.lightmap_index)
            >= bitmaps[Unwrap(bsp.lightmap_bitmap)].bitmaps

\* A material check that forgets to compare the two vertex counts.
MaterialErrorNoParity(bsp, material) ==
    /\ IsSome(material.lightmap_vertices)
    /\ ~IsSome(bsp.lightmap_bitmap)

\* AddBSPParameter::validate, the checks of one material.
MaterialError(bsp, material) ==
    /\ IsSome(material.lightmap_vertices)
    /\ \/ Unwrap(material.lightmap_vertices) # material.shader_vertices
       \/ ~IsSome(bsp.lightmap_bitmap)

\* AddBSPParameter::validate: every error is an Err(String), so the order in
\* which the loops meet them does not change the outcome.
BspValidate(bsp) ==
    /\ ~LightmapBitmapError(bsp)
    /\ \A i \in 1..Len(bsp.lightmap_sets) :
         /\ ~LightmapIndexError(bsp, bsp.lightmap_sets[i])
         /\ \A j \in 1..Len(bsp.lightmap_sets[i].materials) :
              ~MaterialError(bsp, bsp.lightmap_sets[i].materials[j])

\* One material of a lightmap set becomes one geometry of the BSP.
GeometryOf(lightmap, material) ==
    [lightmap_index |-> lightmap.lightmap_index,
     shader |-> material.shader,
     shader_vertices |-> material.shader_vertices,
     lightmap_vertices |-> material.lightmap_vertices]

RECURSIVE GeometriesOf(_)
\* The geometries of a list of lightmap sets, in the order of the sets and,
\* within a set, of its materials.
GeometriesOf(lightmap_sets) ==
    IF lightmap_sets = << >> THEN << >>
    ELSE [j \in 1..Len(Head(lightmap_sets).materials) |->
            GeometryOf(Head(lightmap_sets), Head(lightmap_sets).materials[j])]
         \o GeometriesOf(Tail(lightmap_sets))

\* BSP::load_from_parameters: the stored BSP keeps the lightmap bitmap path
\* and one geometry per material; the parameter carries no clusters.
BspLoadFromParameters(bsp) ==
    [lightmap_bitmap |-> bsp.lightmap_bitmap,
     geometries |-> GeometriesOf(bsp.lightmap_sets),
     clusters |-> << >>]

\* An add_bsp that inserts the BSP before it validates the parameter.
AddBspInsertsBeforeValidate(path, bsp, gpu_ok) ==
    /\ ~Panicked
    /\ IF path \in DOMAIN bsps
         THEN /\ Return("add_bsp", "DataError")
              /\ UNCHANGED bsps
         ELSE /\ bsps' = Insert(bsps, path, BspLoadFromParameters(bsp))
              /\ IF ~BspValidate(bsp) THEN Return("add_bsp", "DataError")
                 ELSE IF ~gpu_ok THEN Return("add_bsp", "GraphicsAPIError")
                 ELSE Return("add_bsp", "Ok")
    /\ UNCHANGED <<bitmaps, shaders, geometries, skies, current_bsp,
                   player_viewports, future,
                   number_of_viewports, backend>>

\* Renderer::add_bsp.  gpu_ok: whether creating the GPU buffers succeeds.
AddBsp(path, bsp, gpu_ok) ==
    /\ ~Panicked
    /\ IF path \in DOMAIN bsps
         THEN /\ Return("add_bsp", "DataError")
              /\ UNCHANGED bsps
         ELSE IF ~BspValidate(bsp)
         THEN /\ Return("add_bsp", "DataError")
              /\ UNCHANGED bsps
         ELSE IF ~gpu_ok
         THEN /\ Return("add_bsp", "GraphicsAPIError")
              /\ UNCHANGED bsps
         ELSE /\ bsps' = Insert(bsps, path, BspLoadFromParameters(bsp))
              /\ Return("add_bsp", "Ok")
    /\ UNCHANGED <<bitmaps, shaders, geometries, skies, current_bsp,
                   player_viewports, future,
                   number_of_viewports, backend>>

-----------------------------------------------------------------------------
(* set_current_bsp *)

\* A set_current_bsp that stores the path without looking it up.
SetCurrentBspNoLookup(path) ==
    /\ ~Panicked
    /\ current_bsp' = path
    /\ Return("set_current_bsp", "Ok")
    /\ UNCHANGED <<bitmaps, shaders, geometries, skies, bsps,
                   player_viewports, future,
                   number_of_viewports, backend>>

\* Renderer::set_current_bsp
SetCurrentBsp(path) ==
    /\ ~Panicked
    /\ IF IsSome(path)
         THEN IF Unwrap(path) \notin DOMAIN bsps
                THEN /\ Return("set_current_bsp", "DataError")
                     /\ UNCHANGED current_bsp
                ELSE /\ current_bsp' = path
                     /\ Return("set_current_bsp", "Ok")
         ELSE /\ current_bsp' = None
              /\ Return("set_current_bsp", "Ok")
    /\ UNCHANGED <<bitmaps, shaders, geometries, skies, bsps,
                   player_viewports, future,
                   number_of_viewports, backend>>

-----------------------------------------------------------------------------
(* draw_frame: the commands of a frame *)

\* BSP::default(): the BSP drawn when no BSP is current.
DefaultBsp == [lightmap_bitmap |-> None, geometries |-> << >>, clusters |-> << >>]

\* draw_frame_infallible: current_bsp.and_then(|f| bsps.get(f)).unwrap_or(default)
CurrentlyLoadedBsp ==
    IF IsSome(current_bsp) /\ Unwrap(current_bsp) \in DOMAIN bsps
      THEN bsps[Unwrap(current_bsp)]
      ELSE DefaultBsp

\* draw_frame_infallible: inside the loop over the viewports the shader of
\* every geometry is looked up with expect("no shader?").
NoShaderPanic ==
    /\ player_viewports # << >>
    /\ \E g \in 1..Len(CurrentlyLoadedBsp.geometries) :
         CurrentlyLoadedBsp.geometries[g].shader \notin DOMAIN shaders

\* is_transparent() of the pipeline data of a stored shader.
IsTransparent(shader) == shader.transparent

\* find_cluster: the number of the first cluster that contains the
\* position, None when no cluster does.
FindCluster(clusters, position) ==
    LET containing == {c \in 1..Len(clusters) : position \in clusters[c].contains}
    IN  IF containing = {} THEN None
        ELSE Some(CHOOSE c \in containing : \A d \in containing : c <= d)

\* A sky lookup that looks at the first cluster of the BSP wherever the
\* camera is.
ViewportSkyOfFirstCluster(i) ==
    LET clusters == CurrentlyLoadedBsp.clusters
    IN  IF Len(clusters) = 0 THEN None
        ELSE IF IsSome(clusters[1].sky) /\ Unwrap(clusters[1].sky) \in DOMAIN skies
        THEN Some(skies[Unwrap(clusters[1].sky)])
        ELSE None

\* draw_frame_infallible: the sky of the cluster the camera of viewport i is
\* in, when that cluster names a sky that is loaded.
ViewportSky(i) ==
    LET clusters == CurrentlyLoadedBsp.clusters
        cluster_index == FindCluster(clusters, player_viewports[i].camera.position)
    IN  IF ~IsSome(cluster_index) THEN None
        ELSE IF ~IsSome(clusters[Unwrap(cluster_index)].sky) THEN None
        ELSE IF Unwrap(clusters[Unwrap(cluster_index)].sky) \notin DOMAIN skies
        THEN None
        ELSE Some(skies[Unwrap(clusters[Unwrap(cluster_index)].sky)])

\* draw_box: a box of the ColorBox pipeline.  viewport tags the commands
\* with the viewport whose loop iteration records them (0: none).
DrawBox(viewport, x, y, width, height, color) ==
    <<[cmd |-> "bind_descriptor_sets", viewport |-> viewport,
       pipeline |-> "ColorBox", layout |-> 1, first_set |-> 1,
       set |-> [kind |-> "color", color |-> color]],
      [cmd |-> "set_cull_mode", viewport |-> viewport, mode |-> "None"],
      [cmd |-> "bind_index_buffer", viewport |-> viewport, by |-> "draw_box"],
      [cmd |-> "bind_vertex_buffers", viewport |-> viewport, by |-> "draw_box"],
      [cmd |-> "bind_pipeline_graphics", viewport |-> viewport,
       pipeline |-> "ColorBox"],
      [cmd |-> "draw_indexed", viewport |-> viewport, by |-> "draw_box",
       index_count |-> BoxIndexCount,
       box |-> [x |-> x, y |-> y, width |-> width, height |-> height]]>>

\* upload_mvp_data: a new uniform buffer bound as descriptor set 0.
UploadMvpData(viewport) ==
    <<[cmd |-> "bind_descriptor_sets", viewport |-> viewport,
       pipeline |-> "SimpleTexture", layout |-> 0, first_set |-> 0,
       set |-> [kind |-> "mvp"]]>>

\* upload_lightmap_data: the lightmap (or the default white image) in a
\* descriptor set of layout 2, bound at set number 1.
UploadLightmapData(viewport, lightmap_index) ==
    <<[cmd |-> "bind_descriptor_sets", viewport |-> viewport,
       pipeline |-> "SimpleTexture", layout |-> 2, first_set |-> 1,
       set |-> [kind |-> "lightmap", lightmap_index |-> lightmap_index]]>>

\* VulkanSimpleShaderMaterial::generate_commands for geometry number g.  The
\* descriptor set of the material is made by a PersistentDescriptorSet::new
\* in generate_commands itself.
GenerateCommands(viewport, g) ==
    <<[cmd |-> "bind_pipeline_graphics", viewport |-> viewport,
       pipeline |-> "SimpleTexture"],
      [cmd |-> "set_cull_mode", viewport |-> viewport, mode |-> "Back"],
      [cmd |-> "bind_descriptor_sets", viewport |-> viewport,
       pipeline |-> "SimpleTexture", layout |-> 1, first_set |-> 1,
       set |-> [kind |-> "material",
                shader |-> CurrentlyLoadedBsp.geometries[g].shader,
                allocated_by |-> "generate_commands"]],
      [cmd |-> "draw_indexed", viewport |-> viewport, by |-> "generate_commands",
       geometry |-> g]>>

\* An opaque filter that yields the geometries last to first.
OpaqueReversed ==
    LET IsOpaque(g) ==
            ~IsTransparent(shaders[CurrentlyLoadedBsp.geometries[g].shader])
        opaque ==
            SelectSeq([g \in 1..Len(CurrentlyLoadedBsp.geometries) |-> g], IsOpaque)
    IN  [k \in 1..Len(opaque) |-> opaque[Len(opaque) + 1 - k]]

\* draw_frame_infallible: the numbers of the geometries of the current BSP
\* whose shader is not transparent, in the order of the geometry list.
Opaque ==
    LET IsOpaque(g) ==
            ~IsTransparent(shaders[CurrentlyLoadedBsp.geometries[g].shader])
    IN  SelectSeq([g \in 1..Len(CurrentlyLoadedBsp.geometries) |-> g], IsOpaque)

RECURSIVE DrawGeometriesAlwaysUploads(_, _, _, _)
\* A loop over the geometries that uploads the lightmap for every geometry.
DrawGeometriesAlwaysUploads(viewport, fullbright, pending, current_lightmap) ==
    IF pending = << >> THEN << >>
    ELSE LET g == Head(pending)
             desired_lightmap ==
                 IF fullbright THEN None
                 ELSE CurrentlyLoadedBsp.geometries[g].lightmap_index
         IN  UploadLightmapData(viewport, desired_lightmap)
             \o <<[cmd |-> "bind_index_buffer", viewport |-> viewport,
                   by |-> "draw_frame_infallible"],
                  [cmd |-> "bind_vertex_buffers", viewport |-> viewport,
                   by |-> "draw_frame_infallible"]>>
             \o GenerateCommands(viewport, g)
             \o DrawGeometriesAlwaysUploads(viewport, fullbright, Tail(pending),
                                            Some(desired_lightmap))

RECURSIVE DrawGeometries(_, _, _, _)
\* draw_frame_infallible, the loop over the opaque geometries: the lightmap
\* is uploaded when the desired one is not the current one, the buffers are
\* bound and the shader generates its commands.
DrawGeometries(viewport, fullbright, pending, current_lightmap) ==
    IF pending = << >> THEN << >>
    ELSE LET g == Head(pending)
             desired_lightmap ==
                 IF fullbright THEN None
                 ELSE CurrentlyLoadedBsp.geometries[g].lightmap_index
         IN  (IF current_lightmap # Some(desired_lightmap)
                THEN UploadLightmapData(viewport, desired_lightmap)
                ELSE << >>)
             \o <<[cmd |-> "bind_index_buffer", viewport |-> viewport,
                   by |-> "draw_frame_infallible"],
                  [cmd |-> "bind_vertex_buffers", viewport |-> viewport,
                   by |-> "draw_frame_infallible"]>>
             \o GenerateCommands(viewport, g)
             \o DrawGeometries(viewport, fullbright, Tail(pending),
                               Some(desired_lightmap))

\* draw_frame_infallible, one iteration of the loop over the viewports.  The
\* transparent geometries are filtered (non_opaque) and never drawn.
ViewportCommands(i) ==
    LET v == player_viewports[i]
        width == current_resolution.width
        height == current_resolution.height
    IN  <<[cmd |-> "set_viewport", viewport |-> i,
           offset |-> <<v.rel_x * width, v.rel_y * height>>,
           extent |-> <<v.rel_width * width, v.rel_height * height>>],
          [cmd |-> "set_cull_mode", viewport |-> i, mode |-> "None"]>>
        \o (IF IsSome(ViewportSky(i))
              THEN DrawBox(i, 0, 0, One, One, Unwrap(ViewportSky(i)).outdoor_fog_color)
              ELSE << >>)
        \o UploadMvpData(i)
        \o DrawGeometries(i, v.camera.fullbright, Opaque, None)

RECURSIVE AllViewportCommands(_)
\* The commands of the viewports i, i + 1, .. in that order.
AllViewportCommands(i) ==
    IF i > Len(player_viewports) THEN << >>
    ELSE ViewportCommands(i) \o AllViewportCommands(i + 1)

\* draw_split_screen_bars: scale = (width / 640).min(height / 480).max(1), as
\* a multiple of 1 / One.
BarScale ==
    Max(One, Min(current_resolution.width * ReferenceHeight,
                 current_resolution.height * ReferenceWidth))

LineThicknessHorizontal == (BaseThickness * BarScale) \div current_resolution.height

LineThicknessVertical == (BaseThickness * BarScale) \div current_resolution.width

\* draw_split_screen_bars
DrawSplitScreenBars ==
    IF Len(player_viewports) <= 1 THEN << >>
    ELSE <<[cmd |-> "set_viewport", viewport |-> 0,
            offset |-> <<0, 0>>,
            extent |-> <<One * current_resolution.width,
                         One * current_resolution.height>>]>>
         \o DrawBox(0, 0, (One \div 2) - (LineThicknessHorizontal \div 2),
                    One, LineThicknessHorizontal, "black")
         \o (IF Len(player_viewports) > 2
               THEN DrawBox(0, (One \div 2) - (LineThicknessVertical \div 2),
                            IF Len(player_viewports) = 3 THEN One \div 2 ELSE 0,
                            LineThicknessVertical,
                            IF Len(player_viewports) = 3 THEN One \div 2 ELSE One,
                            "black")
               ELSE << >>)

\* draw_frame_infallible: the command buffer of a frame.
FrameCommands ==
    <<[cmd |-> "begin_rendering", viewport |-> 0]>>
    \o AllViewportCommands(1)
    \o DrawSplitScreenBars
    \o <<[cmd |-> "end_rendering", viewport |-> 0]>>

-----------------------------------------------------------------------------
(* draw_frame *)

AcquireResults == {"Ok", "Suboptimal", "OutOfDate", "Error"}

PresentResults == {"Ok", "OutOfDate", "Error"}

\* A frame that is submitted on a fresh "now" future joined with the acquire
\* future.
ReturnFrameJoinsNow(result) ==
    last' = [op |-> "draw_frame", result |-> result, commands |-> FrameCommands,
             submitted |->
                Some([join |-> <<"now", "acquire_future">>,
                      then |-> <<"execute", "swapchain_present",
                                 "signal_fence_and_flush">>])]

\* draw_frame_infallible has built the command buffer and flushed it:
\* future.join(image_future).then_execute(..).then_swapchain_present(..)
\* .then_signal_fence_and_flush(), future being the in-flight future it took.
ReturnFrame(result) ==
    last' = [op |-> "draw_frame", result |-> result, commands |-> FrameCommands,
             submitted |->
                Some([join |-> <<Unwrap(future), "acquire_future">>,
                      then |-> <<"execute", "swapchain_present",
                                 "signal_fence_and_flush">>])]

\* A draw_frame that returns true for a suboptimal acquire.
DrawFrameIgnoresSuboptimal(acquire, present) ==
    /\ ~Panicked
    /\ IF acquire = "OutOfDate"
         THEN /\ Return("draw_frame", "false")
              /\ UNCHANGED future
         ELSE IF acquire = "Error" \/ NoShaderPanic \/ ~IsSome(future)
         THEN /\ Return("draw_frame", "panic")
              /\ UNCHANGED future
         ELSE IF present = "Ok"
         THEN /\ future' = Some("fence")
              /\ ReturnFrame("true")
         ELSE IF present = "OutOfDate"
         THEN /\ future' = Some("now")
              /\ ReturnFrame("false")
         ELSE /\ future' = None
              /\ ReturnFrame("panic")
    /\ UNCHANGED <<bitmaps, shaders, geometries, skies, bsps, current_bsp,
                   player_viewports, number_of_viewports, backend>>

\* A draw_frame that takes the in-flight future before it acquires the image.
DrawFrameTakesFutureFirst(acquire, present) ==
    /\ ~Panicked
    /\ IF acquire = "OutOfDate"
         THEN /\ Return("draw_frame", "false")
              /\ future' = None
         ELSE IF acquire = "Error" \/ NoShaderPanic \/ ~IsSome(future)
         THEN /\ Return("draw_frame", "panic")
              /\ UNCHANGED future
         ELSE IF present = "Ok"
         THEN /\ future' = Some("fence")
              /\ ReturnFrame(IF acquire = "Suboptimal" THEN "false" ELSE "true")
         ELSE IF present = "OutOfDate"
         THEN /\ future' = Some("now")
              /\ ReturnFrame("false")
         ELSE /\ future' = None
              /\ ReturnFrame("panic")
    /\ UNCHANGED <<bitmaps, shaders, geometries, skies, bsps, current_bsp,
                   player_viewports, number_of_viewports, backend>>

\* A draw_frame that does not put a future back when present is out of date.
DrawFrameLosesFuture(acquire, present) ==
    /\ ~Panicked
    /\ IF acquire = "OutOfDate"
         THEN /\ Return("draw_frame", "false")
              /\ UNCHANGED future
         ELSE IF acquire = "Error" \/ NoShaderPanic \/ ~IsSome(future)
         THEN /\ Return("draw_frame", "panic")
              /\ UNCHANGED future
         ELSE IF present = "Ok"
         THEN /\ future' = Some("fence")
              /\ ReturnFrame(IF acquire = "Suboptimal" THEN "false" ELSE "true")
         ELSE IF present = "OutOfDate"
         THEN /\ future' = None
              /\ ReturnFrame("false")
         ELSE /\ future' = None
              /\ ReturnFrame("panic")
    /\ UNCHANGED <<bitmaps, shaders, geometries, skies, bsps, current_bsp,
                   player_viewports, number_of_viewports, backend>>

\* VulkanRenderer::draw_frame and draw_frame_infallible.  acquire: what
\* acquire_next_image reports; present: what then_signal_fence_and_flush
\* reports.
DrawFrame(acquire, present) ==
    /\ ~Panicked
    /\ IF acquire = "OutOfDate"
         THEN /\ Return("draw_frame", "false")
              /\ UNCHANGED future
         ELSE IF acquire = "Error"
         THEN /\ Return("draw_frame", "panic")
              /\ UNCHANGED future
         ELSE IF NoShaderPanic
         THEN /\ Return("draw_frame", "panic")
              /\ UNCHANGED future
         ELSE IF ~IsSome(future)
         THEN /\ Return("draw_frame", "panic")
              /\ UNCHANGED future
         ELSE IF present = "Ok"
         THEN /\ future' = Some("fence")
              /\ ReturnFrame(IF acquire = "Suboptimal" THEN "false" ELSE "true")
         ELSE IF present = "OutOfDate"
         THEN /\ future' = Some("now")
              /\ ReturnFrame("false")
         ELSE /\ future' = None
              /\ ReturnFrame("panic")
    /\ UNCHANGED <<bitmaps, shaders, geometries, skies, bsps, current_bsp,
                   player_viewports, number_of_viewports, backend>>

-----------------------------------------------------------------------------
(* rebuild_swapchain *)

\* A rebuild that builds the create info anew from the parameters.
RebuildSwapchainFromParameters(parameters, recreate_ok) ==
    /\ ~Panicked
    /\ IF ~recreate_ok
         THEN /\ Return("rebuild_swapchain", "GraphicsAPIError")
              /\ UNCHANGED <<swapchain, swapchain_images, swapchain_image_views,
                             current_resolution>>
         ELSE /\ swapchain' = BuildSwapchain(parameters, swapchain.min_image_count)
              /\ swapchain_images' = ImagesOf(swapchain')
              /\ swapchain_image_views' = ImageViewsOf(swapchain_images')
              /\ current_resolution' = parameters.resolution
              /\ Return("rebuild_swapchain", "Ok")
    /\ UNCHANGED <<bitmaps, shaders, geometries, skies, bsps, current_bsp,
                   player_viewports, future, number_of_viewports, pipelines,
                   physical_devices, device>>

\* A rebuild_swapchain that assigns current_resolution before it recreates
\* the swapchain.
RebuildSwapchainSetsResolutionFirst(parameters, recreate_ok) ==
    /\ ~Panicked
    /\ current_resolution' = parameters.resolution
    /\ IF ~recreate_ok
         THEN /\ Return("rebuild_swapchain", "GraphicsAPIError")
              /\ UNCHANGED <<swapchain, swapchain_images, swapchain_image_views>>
         ELSE /\ swapchain' = Recreate(swapchain, parameters)
              /\ swapchain_images' = ImagesOf(swapchain')
              /\ swapchain_image_views' = ImageViewsOf(swapchain_images')
              /\ Return("rebuild_swapchain", "Ok")
    /\ UNCHANGED <<bitmaps, shaders, geometries, skies, bsps, current_bsp,
                   player_viewports, future, number_of_viewports, pipelines,
                   physical_devices, device>>

\* VulkanRenderer::rebuild_swapchain.  recreate_ok: whether
\* Swapchain::recreate succeeds.
RebuildSwapchain(parameters, recreate_ok) ==
    /\ ~Panicked
    /\ IF ~recreate_ok
         THEN /\ Return("rebuild_swapchain", "GraphicsAPIError")
              /\ UNCHANGED <<swapchain, swapchain_images, swapchain_image_views,
                             current_resolution>>
         ELSE /\ swapchain' = Recreate(swapchain, parameters)
              /\ swapchain_images' = ImagesOf(swapchain')
              /\ swapchain_image_views' = ImageViewsOf(swapchain_images')
              /\ current_resolution' = parameters.resolution
              /\ Return("rebuild_swapchain", "Ok")
    /\ UNCHANGED <<bitmaps, shaders, geometries, skies, bsps, current_bsp,
                   player_viewports, future, number_of_viewports, pipelines,
                   physical_devices, device>>

-----------------------------------------------------------------------------
(* Renderer::new *)

\* What the fields hold while there is no renderer; no action reads them.
NoResolution == [width |-> 0, height |-> 0]

NoSwapchain ==
    [min_image_count |-> 0, image_extent |-> <<0, 0>>, image_usage |-> {},
     present_mode |-> "none"]

\* The caller holds a renderer: Renderer::new has returned Ok.
Constructed ==
    /\ last.op # "none"
    /\ ~(last.op = "new" /\ last.result # "Ok")

\* Every field of the renderer.
renderer ==
    <<registry, current_bsp, player_viewports, future, number_of_viewports,
      backend>>

\* A Renderer::new that initialises the backend before it looks at the
\* number of viewports.
NewInitialisesBackendFirst(parameters, surface_min_image_count, anisotropic_filtering, backend_result) ==
    /\ ~Constructed
    /\ IF \/ ~IsSome(LoadVulkanAndGetQueue(anisotropic_filtering))
          \/ backend_result # "Ok"
         THEN /\ Return("new", "GraphicsAPIError")
              /\ UNCHANGED renderer
         ELSE IF parameters.number_of_viewports \notin MinViewports..MaxViewports
         THEN /\ Return("new", "DataError")
              /\ UNCHANGED renderer
         ELSE /\ bitmaps' = EmptyMap
              /\ shaders' = EmptyMap
              /\ geometries' = EmptyMap
              /\ skies' = EmptyMap
              /\ bsps' = EmptyMap
              /\ current_bsp' = None
              /\ player_viewports' = NewPlayerViewports
              /\ future' = Some("now")
              /\ number_of_viewports' = parameters.number_of_viewports
              /\ pipelines' = LoadAllPipelines
              /\ swapchain' = BuildSwapchain(parameters, surface_min_image_count)
              /\ swapchain_images' = ImagesOf(swapchain')
              /\ swapchain_image_views' = ImageViewsOf(swapchain_images')
              /\ current_resolution' = parameters.resolution
              /\ device' = Unwrap(LoadVulkanAndGetQueue(anisotropic_filtering))
              /\ UNCHANGED physical_devices
              /\ Return("new", "Ok")

\* Renderer::new.  anisotropic_filtering: whether the anisotropic filtering
\* handed to load_vulkan_and_get_queue is Some(..).  backend_result: what
\* the rest of VulkanRenderer::new comes to.
New(parameters, surface_min_image_count, anisotropic_filtering, backend_result) ==
    /\ ~Constructed
    /\ IF parameters.number_of_viewports \notin MinViewports..MaxViewports
         THEN /\ Return("new", "DataError")
              /\ UNCHANGED renderer
         ELSE IF \/ ~IsSome(LoadVulkanAndGetQueue(anisotropic_filtering))
                 \/ backend_result # "Ok"
         THEN /\ Return("new", "GraphicsAPIError")
              /\ UNCHANGED renderer
         ELSE /\ bitmaps' = EmptyMap
              /\ shaders' = EmptyMap
              /\ geometries' = EmptyMap
              /\ skies' = EmptyMap
              /\ bsps' = EmptyMap
              /\ current_bsp' = None
              /\ player_viewports' = NewPlayerViewports
              /\ future' = Some("now")
              /\ number_of_viewports' = parameters.number_of_viewports
              /\ pipelines' = LoadAllPipelines
              /\ swapchain' = BuildSwapchain(parameters, surface_min_image_count)
              /\ swapchain_images' = ImagesOf(swapchain')
              /\ swapchain_image_views' = ImageViewsOf(swapchain_images')
              /\ current_resolution' = parameters.resolution
              /\ device' = Unwrap(LoadVulkanAndGetQueue(anisotropic_filtering))
              /\ UNCHANGED physical_devices
              /\ Return("new", "Ok")

-----------------------------------------------------------------------------
(* The registry of a constructed renderer. *)

Next ==
    \/ Reset
    \/ \E path \in Paths, bitmap \in AddBitmapParameters, gpu_ok \in BOOLEAN :
         AddBitmap(path, bitmap, gpu_ok)
    \/ \E path \in ShaderPaths, shader \in AddShaderParameters, gpu_ok \in BOOLEAN :
         AddShader(path, shader, gpu_ok)
    \/ \E path \in Paths : AddGeometry(path)
    \/ \E path \in Paths : AddSky(path)
    \/ \E path \in BspPaths, bsp \in AddBSPParameters, gpu_ok \in BOOLEAN :
         AddBsp(path, bsp, gpu_ok)
    \/ \E path \in OptionOf(Paths) : SetCurrentBsp(path)
    \/ \E acquire \in AcquireResults, present \in PresentResults :
         DrawFrame(acquire, present)

Spec == Init /\ [][Next]_vars

-----------------------------------------------------------------------------
(* The lifecycle: construction, frames and the swapchain, with a registry    *)
(* of at most one shader and one BSP of one geometry.                        *)

\* There is no renderer yet.
InitLifecycle ==
    /\ bitmaps = EmptyMap
    /\ shaders = EmptyMap
    /\ geometries = EmptyMap
    /\ skies = EmptyMap
    /\ bsps = EmptyMap
    /\ current_bsp = None
    /\ player_viewports = << >>
    /\ future = None
    /\ last = [op |-> "none", result |-> "Ok", commands |-> << >>, submitted |-> None]
    /\ number_of_viewports = 0
    /\ pipelines = EmptyMap
    /\ swapchain = NoSwapchain
    /\ swapchain_images = << >>
    /\ swapchain_image_views = << >>
    /\ current_resolution = NoResolution
    /\ physical_devices = FlycamMachine
    /\ device = NoDevice

LifecycleShaderParameters == [bitmap : {None}, transparent : {FALSE}]

LifecycleBSPParameters ==
    [lightmap_bitmap : {None},
     lightmap_sets :
        SeqsOfLen([lightmap_index : {None},
                   materials :
                      SeqsOfLen([shader_vertices : {1},
                                 lightmap_vertices : {None},
                                 shader : ShaderPaths], {1})], {1})]

NextLifecycle ==
    \/ \E parameters \in RendererParameters,
          surface_min_image_count \in SurfaceMinImageCounts,
          anisotropic_filtering \in BOOLEAN,
          backend_result \in BackendResults :
         New(parameters, surface_min_image_count, anisotropic_filtering,
             backend_result)
    \/ Constructed /\ Reset
    \/ \E path \in ShaderPaths, shader \in LifecycleShaderParameters :
         Constructed /\ AddShader(path, shader, TRUE)
    \/ \E path \in BspPaths, bsp \in LifecycleBSPParameters :
         Constructed /\ AddBsp(path, bsp, TRUE)
    \/ \E path \in OptionOf(BspPaths) : Constructed /\ SetCurrentBsp(path)
    \/ \E acquire \in AcquireResults, present \in PresentResults :
         Constructed /\ DrawFrame(acquire, present)
    \/ \E parameters \in RendererParameters, recreate_ok \in BOOLEAN :
         Constructed /\ RebuildSwapchain(parameters, recreate_ok)

SpecLifecycle == InitLifecycle /\ [][NextLifecycle]_vars

-----------------------------------------------------------------------------
(* The frame composer of a renderer whose viewports are populated: one       *)
(* viewport per configured viewport, which Renderer::new leaves to do.       *)

\* PlayerViewport::default(), with the camera's fullbright flag: the camera
\* is at the origin, which is position 0.
PlayerViewport(fullbright) ==
    [rel_x |-> 0, rel_y |-> 0, rel_width |-> One, rel_height |-> One,
     camera |-> [fullbright |-> fullbright, position |-> 0]]

\* A renderer constructed with 1 to 4 viewports, all of them populated.
InitViewports ==
    /\ bitmaps = EmptyMap
    /\ shaders = EmptyMap
    /\ geometries = EmptyMap
    /\ skies = EmptyMap
    /\ bsps = EmptyMap
    /\ current_bsp = None
    /\ number_of_viewports \in MinViewports..MaxViewports
    /\ \E fullbright \in BOOLEAN :
         player_viewports = [i \in 1..number_of_viewports |-> PlayerViewport(fullbright)]
    /\ future = Some("now")
    /\ last = [op |-> "new", result |-> "Ok", commands |-> << >>, submitted |-> None]
    /\ pipelines = LoadAllPipelines
    /\ swapchain = BuildSwapchain(FlycamParameters, MinImageCount)
    /\ swapchain_images = ImagesOf(swapchain)
    /\ swapchain_image_views = ImageViewsOf(swapchain_images)
    /\ current_resolution = FlycamParameters.resolution
    /\ physical_devices = FlycamMachine
    /\ device = FlycamDevice

ViewportBitmapParameters == [bitmaps : {1}, valid : {TRUE}]

ViewportShaderParameters == [bitmap : {None}, transparent : BOOLEAN]

ViewportBSPParameters ==
    [lightmap_bitmap : OptionOf({"b"}),
     lightmap_sets :
        SeqsOfLen([lightmap_index : OptionOf({0}),
                   materials :
                      SeqsOfLen([shader_vertices : {1},
                                 lightmap_vertices : {None},
                                 shader : Paths], {1})], {1, 2})]

NextViewports ==
    \/ Reset
    \/ \E bitmap \in ViewportBitmapParameters : AddBitmap("b", bitmap, TRUE)
    \/ \E path \in Paths, shader \in ViewportShaderParameters :
         AddShader(path, shader, TRUE)
    \/ \E path \in BspPaths, bsp \in ViewportBSPParameters : AddBsp(path, bsp, TRUE)
    \/ \E path \in OptionOf(BspPaths) : SetCurrentBsp(path)
    \/ \E acquire \in AcquireResults, present \in PresentResults :
         DrawFrame(acquire, present)

SpecViewports == InitViewports /\ [][NextViewports]_vars

-----------------------------------------------------------------------------
(* The frame composer over a BSP with clusters and a sky: what add_sky and   *)
(* the clusters of add_bsp leave to do.                                      *)

\* The camera positions tried: the origin and one other point.
CameraPositions == {0, 1}

SkyPaths == {"s"}

\* A Sky, as far as the frame composer reads it.
Skies == [outdoor_fog_color : {"fog"}]

\* The clusters a BSP may have when the skies in loaded are the loaded ones:
\* each contains one of the positions and names no sky or a loaded one.
ClusterLists(loaded) ==
    SeqsOfLen([contains : {{p} : p \in CameraPositions}, sky : OptionOf(loaded)],
              {0, 1, 2})

\* The BSP of the registry: one geometry of the opaque shader "m", and the
\* clusters.
SkyBsp(clusters) ==
    [BspLoadFromParameters(
        [lightmap_bitmap |-> None,
         lightmap_sets |->
            <<[lightmap_index |-> None,
               materials |-> <<[shader_vertices |-> 1,
                                lightmap_vertices |-> None,
                                shader |-> "m"]>>]>>])
     EXCEPT !.clusters = clusters]

\* A renderer of one or two populated viewports, each camera at one of the
\* positions, whose registry holds at most one sky, a shader and a BSP whose
\* clusters name loaded skies only.
InitSky ==
    /\ bitmaps = EmptyMap
    /\ shaders = Insert(EmptyMap, "m",
                        ShaderLoadFromParameters([bitmap |-> None,
                                                  transparent |-> FALSE]))
    /\ geometries = EmptyMap
    /\ \E loaded \in SUBSET SkyPaths :
          /\ skies \in [loaded -> Skies]
          /\ \E clusters \in ClusterLists(loaded) :
                bsps = Insert(EmptyMap, "m", SkyBsp(clusters))
    /\ current_bsp \in OptionOf(BspPaths)
    /\ number_of_viewports \in {1, 2}
    /\ \E positions \in [1..number_of_viewports -> CameraPositions] :
          player_viewports =
              [i \in 1..number_of_viewports |->
                  [PlayerViewport(FALSE) EXCEPT !.camera.position = positions[i]]]
    /\ future = Some("now")
    /\ last = [op |-> "new", result |-> "Ok", commands |-> << >>, submitted |-> None]
    /\ pipelines = LoadAllPipelines
    /\ swapchain = BuildSwapchain(FlycamParameters, MinImageCount)
    /\ swapchain_images = ImagesOf(swapchain)
    /\ swapchain_image_views = ImageViewsOf(swapchain_images)
    /\ current_resolution = FlycamParameters.resolution
    /\ physical_devices = FlycamMachine
    /\ device = FlycamDevice

NextSky ==
    \/ Reset
    \/ \E path \in OptionOf(BspPaths) : SetCurrentBsp(path)
    \/ \E acquire \in AcquireResults, present \in PresentResults :
         DrawFrame(acquire, present)

SpecSky == InitSky /\ [][NextSky]_vars

-----------------------------------------------------------------------------
(* The selection of the physical device: Renderer::new on every machine      *)
(* tried.                                                                    *)

\* There is no renderer yet, on any of the machines.
InitGpu ==
    /\ bitmaps = EmptyMap
    /\ shaders = EmptyMap
    /\ geometries = EmptyMap
    /\ skies = EmptyMap
    /\ bsps = EmptyMap
    /\ current_bsp = None
    /\ player_viewports = << >>
    /\ future = None
    /\ last = [op |-> "none", result |-> "Ok", commands |-> << >>, submitted |-> None]
    /\ number_of_viewports = 0
    /\ pipelines = EmptyMap
    /\ swapchain = NoSwapchain
    /\ swapchain_images = << >>
    /\ swapchain_image_views = << >>
    /\ current_resolution = NoResolution
    /\ physical_devices \in Machines
    /\ device = NoDevice

NextGpu ==
    \E parameters \in RendererParameters,
       surface_min_image_count \in SurfaceMinImageCounts,
       anisotropic_filtering \in BOOLEAN,
       backend_result \in BackendResults :
        New(parameters, surface_min_image_count, anisotropic_filtering,
            backend_result)

SpecGpu == InitGpu /\ [][NextGpu]_vars

-----------------------------------------------------------------------------
(* load_pipeline over all pipeline settings: the pipelines a catalog could   *)
(* be loaded with.                                                           *)

DepthAccesses ==
    {"DepthWrite", "DepthReadOnly", "DepthReadOnlyTransparent", "NoDepth"}

\* PipelineSettings: every depth access, with the vertex buffers and the
\* blending of the two shaders of the catalog.
PipelineSettings ==
    [depth_access : DepthAccesses,
     vertex_buffer_descriptions :
        {SolidColorSettings.vertex_buffer_descriptions,
         SimpleTextureSettings.vertex_buffer_descriptions},
     blend : {SolidColorSettings.blend, SimpleTextureSettings.blend}]

\* A shader's new: the pipeline load_pipeline makes of the settings becomes
\* the pipeline of this type.
LoadPipelineAs(type, settings) ==
    /\ pipelines' = Insert(pipelines, type, LoadPipeline(settings))
    /\ Return("load_pipeline", "Ok")
    /\ UNCHANGED <<bitmaps, shaders, geometries, skies, bsps, current_bsp,
                   player_viewports, future, number_of_viewports, swapchain,
                   swapchain_images, swapchain_image_views,
                   current_resolution, physical_devices, device>>

NextPipelines ==
    \E type \in VulkanPipelineTypes, settings \in PipelineSettings :
        LoadPipelineAs(type, settings)

SpecPipelines == InitLifecycle /\ [][NextPipelines]_vars

-----------------------------------------------------------------------------
(* Vocabulary of the properties. *)

\* The keys of the five mappings of the registry.
AllKeys ==
    DOMAIN bitmaps \cup DOMAIN shaders \cup DOMAIN geometries
        \cup DOMAIN skies \cup DOMAIN bsps

\* The results that are an Err(..) returned to the caller.
Errors == {"DataError", "GraphicsAPIError"}

\* Every record stored in map is still stored, unchanged, in map_after.
Kept(map, map_after) ==
    \A p \in DOMAIN map : p \in DOMAIN map_after /\ map_after[p] = map[p]

\* Some material of the parameter names a shader that is not loaded.
NamesUnloadedShader(bsp) ==
    \E i \in 1..Len(bsp.lightmap_sets) :
        \E j \in 1..Len(bsp.lightmap_sets[i].materials) :
            bsp.lightmap_sets[i].materials[j].shader \notin DOMAIN shaders

\* Some material of the parameter has lightmap vertices whose number differs
\* from the number of its shader vertices.
ParityMismatch(bsp) ==
    \E i \in 1..Len(bsp.lightmap_sets) :
        \E j \in 1..Len(bsp.lightmap_sets[i].materials) :
            LET material == bsp.lightmap_sets[i].materials[j]
            IN  /\ IsSome(material.lightmap_vertices)
                /\ Unwrap(material.lightmap_vertices) # material.shader_vertices

-----------------------------------------------------------------------------
\* C1: whenever add_bitmap, add_shader or add_bsp is called with a path that
\* is already a key of one of the five mappings, the call returns the
\* "already exists" data error and inserts nothing.
C1_AddExistingPathFails ==
    [][/\ \A path \in Paths, bitmap \in AddBitmapParameters, gpu_ok \in BOOLEAN :
            (path \in AllKeys /\ AddBitmap(path, bitmap, gpu_ok))
                => (last'.result = "DataError" /\ UNCHANGED registry)
       /\ \A path \in Paths, shader \in AddShaderParameters, gpu_ok \in BOOLEAN :
            (path \in AllKeys /\ AddShader(path, shader, gpu_ok))
                => (last'.result = "DataError" /\ UNCHANGED registry)
       /\ \A path \in Paths, bsp \in AddBSPParameters, gpu_ok \in BOOLEAN :
            (path \in AllKeys /\ AddBsp(path, bsp, gpu_ok))
                => (last'.result = "DataError" /\ UNCHANGED registry)
      ]_vars

\* C2: a record stored under a path stays the same record until the next
\* reset(): every call other than reset keeps every stored record of every
\* mapping.
C2_StoredRecordsNeverReplaced ==
    [][last'.op # "reset" =>
          /\ Kept(bitmaps, bitmaps')
          /\ Kept(shaders, shaders')
          /\ Kept(geometries, geometries')
          /\ Kept(skies, skies')
          /\ Kept(bsps, bsps')
      ]_vars

\* C3: whenever an add_* call returns an error, the five mappings and
\* current_bsp are what they were before the call.
C3_FailedAddChangesNothing ==
    [][(last'.op \in {"add_bitmap", "add_shader", "add_geometry", "add_sky", "add_bsp"}
            /\ last'.result \in Errors)
          => (registry' = registry /\ current_bsp' = current_bsp)
      ]_vars

\* C3 witness: add_bsp has just returned an error on a registry that holds
\* a bitmap.
C3_Witness ==
    /\ last.op = "add_bsp"
    /\ last.result = "DataError"
    /\ DOMAIN bitmaps # {}

\* C4: every path a stored asset refers to resolves in the registry: the
\* base bitmap of every shader and the lightmap bitmap of every BSP are
\* bitmaps, the shader of every BSP geometry is a shader, the sky of every
\* BSP cluster is a sky.
C4_DependencyClosure ==
    /\ \A p \in DOMAIN shaders :
          IsSome(shaders[p].bitmap) => Unwrap(shaders[p].bitmap) \in DOMAIN bitmaps
    /\ \A p \in DOMAIN bsps :
          /\ IsSome(bsps[p].lightmap_bitmap)
                => Unwrap(bsps[p].lightmap_bitmap) \in DOMAIN bitmaps
          /\ \A g \in 1..Len(bsps[p].geometries) :
                bsps[p].geometries[g].shader \in DOMAIN shaders
          /\ \A c \in 1..Len(bsps[p].clusters) :
                IsSome(bsps[p].clusters[c].sky)
                    => Unwrap(bsps[p].clusters[c].sky) \in DOMAIN skies

\* C5: add_shader with a base bitmap that is not loaded returns a data error
\* and changes nothing (so it does not go on to the material constructor,
\* which would panic on the missing key).
C5_AddShaderNeedsBitmap ==
    [][last'.op = "add_shader" =>
          \A path \in Paths, shader \in AddShaderParameters, gpu_ok \in BOOLEAN :
              (/\ IsSome(shader.bitmap)
               /\ Unwrap(shader.bitmap) \notin DOMAIN bitmaps
               /\ AddShader(path, shader, gpu_ok))
                  => (/\ last'.result = "DataError"
                      /\ registry' = registry
                      /\ current_bsp' = current_bsp)
      ]_vars

\* C5 witness: add_shader has returned a data error while no BSP is loaded,
\* so the error is not the "already exists" one: the base bitmap was missing.
C5_Witness ==
    /\ last.op = "add_shader"
    /\ last.result = "DataError"
    /\ DOMAIN bsps = {}

\* C6: every lightmap index of every stored BSP is in range of the BSP's
\* lightmap bitmap: the BSP names a lightmap bitmap, that bitmap is loaded
\* and has more sub-bitmaps than the index.
C6_LightmapIndicesInRange ==
    \A p \in DOMAIN bsps :
        \A g \in 1..Len(bsps[p].geometries) :
            IsSome(bsps[p].geometries[g].lightmap_index) =>
                /\ IsSome(bsps[p].lightmap_bitmap)
                /\ Unwrap(bsps[p].lightmap_bitmap) \in DOMAIN bitmaps
                /\ Unwrap(bsps[p].geometries[g].lightmap_index)
                      < bitmaps[Unwrap(bsps[p].lightmap_bitmap)].bitmaps

\* C7: add_bsp with a material whose shader is not loaded returns a data
\* error and does not insert the BSP.
C7_AddBspNeedsShaders ==
    [][\A path \in BspPaths, bsp \in AddBSPParameters, gpu_ok \in BOOLEAN :
          (NamesUnloadedShader(bsp) /\ AddBsp(path, bsp, gpu_ok))
              => (last'.result = "DataError" /\ bsps' = bsps)
      ]_vars

\* Every geometry of every stored BSP that has lightmap vertices has as many
\* of them as shader vertices.
LightmapParity ==
    \A p \in DOMAIN bsps :
        \A g \in 1..Len(bsps[p].geometries) :
            IsSome(bsps[p].geometries[g].lightmap_vertices) =>
                Unwrap(bsps[p].geometries[g].lightmap_vertices)
                    = bsps[p].geometries[g].shader_vertices

\* C8: add_bsp returns a data error for every parameter that has a material
\* whose lightmap vertices differ in number from its shader vertices (a call
\* of add_bsp that returns anything else had no such material), and after
\* every call the stored geometries satisfy the parity.
C8_LightmapParity ==
    [][/\ (last'.op = "add_bsp" /\ last'.result # "DataError") =>
            \A path \in BspPaths, bsp \in AddBSPParameters, gpu_ok \in BOOLEAN :
                AddBsp(path, bsp, gpu_ok) => ~ParityMismatch(bsp)
       /\ LightmapParity'
      ]_vars

\* C8 witness: a stored BSP has a geometry with lightmap vertices.
C8_Witness ==
    \E p \in DOMAIN bsps :
        \E g \in 1..Len(bsps[p].geometries) :
            IsSome(bsps[p].geometries[g].lightmap_vertices)

\* What set_current_bsp(path) does to the renderer, with the error kind left
\* open: failed is the result of the call for a path that is no loaded BSP.
SetCurrentBspContract(failed) ==
    \A path \in OptionOf(Paths) :
        SetCurrentBsp(path) =>
            /\ registry' = registry
            /\ IF IsSome(path) /\ Unwrap(path) \notin DOMAIN bsps
                 THEN last'.result = failed /\ current_bsp' = current_bsp
                 ELSE last'.result = "Ok" /\ current_bsp' = path

\* C9 as stated: set_current_bsp(Some(p)) with p not a loaded BSP fails with
\* a NotFound error and leaves current_bsp unchanged; with p loaded it
\* succeeds and current_bsp becomes p; set_current_bsp(None) succeeds and
\* clears current_bsp; the mappings never change.
C9_SetCurrentBsp_NotFound ==
    [][last'.op = "set_current_bsp" => SetCurrentBspContract("NotFound")]_vars

\* C9 as amended: the same, where the failure is the data error that the
\* add_* calls return as well.
C9_SetCurrentBsp ==
    [][last'.op = "set_current_bsp" => SetCurrentBspContract("DataError")]_vars

\* C9 witness: with BSP "m" current, set_current_bsp of a path that is no
\* BSP has failed and "m" is still current.
C9_Witness ==
    /\ last.op = "set_current_bsp"
    /\ last.result = "DataError"
    /\ current_bsp = Some("m")

\* C10: current_bsp is none or the path of a loaded BSP.
C10_CurrentBspIsLoaded ==
    IsSome(current_bsp) => Unwrap(current_bsp) \in DOMAIN bsps

\* C10 witness: a frame has been drawn while a BSP is current.
C10_Witness ==
    /\ IsSome(current_bsp)
    /\ last.op = "draw_frame"
    /\ last.result = "true"

-----------------------------------------------------------------------------
(* Vocabulary of the properties of a frame. *)

\* The registry Renderer::new constructs.
FreshRegistry == <<EmptyMap, EmptyMap, EmptyMap, EmptyMap, EmptyMap>>

\* The last call was a draw_frame that acquired an image: it recorded the
\* commands of a frame.
FrameDrawn == last.op = "draw_frame" /\ last.commands # << >>

\* The positions of the recorded commands that satisfy Is.
Positions(Is(_)) == {k \in 1..Len(last.commands) : Is(last.commands[k])}

IsMvpUpload(c) == c.cmd = "bind_descriptor_sets" /\ c.first_set = 0

IsInViewport(c) == c.viewport > 0

IsGeometryDraw(c) == c.cmd = "draw_indexed" /\ c.by = "generate_commands"

IsBoxDraw(c) == c.cmd = "draw_indexed" /\ c.by = "draw_box"

\* A box drawn outside the loop over the viewports.
IsBar(c) == IsBoxDraw(c) /\ c.viewport = 0

IsEndRendering(c) == c.cmd = "end_rendering"

IsBindPipeline(c) == c.cmd = "bind_pipeline_graphics"

\* The shader of geometry number g of the current BSP is transparent.
TransparentGeometry(g) ==
    IsTransparent(shaders[CurrentlyLoadedBsp.geometries[g].shader])

\* The pipeline bound when the command at position k is recorded: that of
\* the last bind_pipeline_graphics before it.
PipelineBoundAt(k) ==
    LET binds == {j \in Positions(IsBindPipeline) : j < k}
    IN  IF binds = {} THEN "none"
        ELSE last.commands[CHOOSE j \in binds : \A i \in binds : i <= j].pipeline

\* A full-width box centred at y = 0.5.
HorizontalBar(box) ==
    /\ box.x = 0
    /\ box.width = One
    /\ 2 * box.y + box.height = One

\* A box centred at x = 0.5 that starts at y and is height high.
VerticalBar(box, y, height) ==
    /\ 2 * box.x + box.width = One
    /\ box.y = y
    /\ box.height = height

-----------------------------------------------------------------------------
\* C11: reset() never fails, empties the five mappings and clears
\* current_bsp from any state; a reset() after a reset() changes nothing,
\* and the registry after a reset() is the registry of a freshly constructed
\* renderer.
C11_ResetIdempotent ==
    [][last'.op = "reset" =>
          /\ last'.result = "Ok"
          /\ registry' = FreshRegistry
          /\ current_bsp' = None
          /\ last.op = "reset" => (registry' = registry /\ current_bsp' = current_bsp)
          /\ last.op = "new" => registry' = registry
      ]_vars

\* C11 witness: reset has run on a renderer that has drawn frames.
C11_Witness ==
    /\ last.op = "reset"
    /\ last.result = "Ok"
    /\ future = Some("fence")

C13_ViewportMonotonicity ==
    FrameDrawn =>
        /\ Cardinality(Positions(IsMvpUpload)) = number_of_viewports
        /\ {last.commands[k].viewport : k \in Positions(IsInViewport)}
              = 1..number_of_viewports

C15_EveryGeometryDrawnOnce ==
    FrameDrawn =>
        /\ \A v \in 1..number_of_viewports :
              \A g \in 1..Len(CurrentlyLoadedBsp.geometries) :
                  Cardinality({k \in Positions(IsGeometryDraw) :
                                  /\ last.commands[k].viewport = v
                                  /\ last.commands[k].geometry = g}) = 1
        /\ ~IsSome(current_bsp) => Positions(IsGeometryDraw) = {}

\* C16: the bars of a frame of a renderer with N viewports: none for N = 1;
\* for N >= 2 a full-width horizontal bar centred at y = 0.5; for N = 3 also
\* a vertical bar at x = 0.5 from y = 0.5 of half the height; for N = 4 also
\* a vertical bar at x = 0.5 from y = 0 of the full height.  The bars come
\* after every command of the viewports and before the end of the rendering.
C16_SplitScreenBars ==
    FrameDrawn =>
        LET bars == SelectSeq(last.commands, IsBar)
        IN  /\ number_of_viewports = 1 => Len(bars) = 0
            /\ number_of_viewports >= 2 =>
                  (Len(bars) >= 1 /\ HorizontalBar(bars[1].box))
            /\ number_of_viewports = 2 => Len(bars) = 1
            /\ number_of_viewports = 3 =>
                  (Len(bars) = 2 /\ VerticalBar(bars[2].box, One \div 2, One \div 2))
            /\ number_of_viewports = 4 =>
                  (Len(bars) = 2 /\ VerticalBar(bars[2].box, 0, One))
            /\ \A b \in Positions(IsBar) :
                  /\ \A k \in Positions(IsInViewport) : k < b
                  /\ \A e \in Positions(IsEndRendering) : b < e

\* C17: a draw_frame whose acquire reports out-of-date returns false, records
\* no command, submits nothing and leaves the in-flight future, the registry
\* and current_bsp as they were.
C17_AcquireOutOfDate ==
    [][last'.op = "draw_frame" =>
          \A present \in PresentResults :
              DrawFrame("OutOfDate", present) =>
                  /\ last'.result = "false"
                  /\ last'.commands = << >>
                  /\ last'.submitted = None
                  /\ future' = future
                  /\ registry' = registry
                  /\ current_bsp' = current_bsp
      ]_vars

\* C17 witness: after frames have been drawn from a registry that holds a
\* BSP, a draw_frame has returned false without submitting anything.
C17_Witness ==
    /\ last.op = "draw_frame"
    /\ last.result = "false"
    /\ last.submitted = None
    /\ future = Some("fence")
    /\ DOMAIN bsps # {}

\* C18: a draw_frame that gets as far as the present leaves a fresh "now"
\* future and returns false when the present reports out-of-date, and leaves
\* the fence future of the frame when the present succeeds; whenever a call
\* returns from a constructed renderer, the in-flight future is there.
C18_PresentOutcome ==
    [][/\ last'.op = "draw_frame" =>
            \A acquire \in {"Ok", "Suboptimal"} :
                (~NoShaderPanic /\ IsSome(future)) =>
                    /\ DrawFrame(acquire, "OutOfDate")
                          => (future' = Some("now") /\ last'.result = "false")
                    /\ DrawFrame(acquire, "Ok") => future' = Some("fence")
       /\ (Constructed' /\ ~Panicked') => IsSome(future')
      ]_vars

\* C18 witness: a frame that was submitted after the fence of an earlier
\* frame has met an out-of-date present: the future is a fresh "now".
C18_Witness ==
    /\ last.op = "draw_frame"
    /\ last.result = "false"
    /\ IsSome(last.submitted)
    /\ Unwrap(last.submitted).join[1] = "fence"
    /\ future = Some("now")

\* C19: a rebuild_swapchain(parameters) that succeeds leaves a swapchain of
\* the extent of parameters.resolution whose every other create-info field
\* is the old one, as many image views as images, each the view of its image
\* of the new extent, and current_resolution = parameters.resolution; the
\* pipelines, the registry, current_bsp and the in-flight future are as they
\* were.
C19_RebuildSwapchain ==
    [][(last'.op = "rebuild_swapchain" /\ last'.result = "Ok") =>
          \A parameters \in RendererParameters :
              RebuildSwapchain(parameters, TRUE) =>
                  /\ swapchain'.image_extent
                        = <<parameters.resolution.width, parameters.resolution.height>>
                  /\ \A field \in DOMAIN swapchain \ {"image_extent"} :
                        swapchain'[field] = swapchain[field]
                  /\ Len(swapchain_image_views') = Len(swapchain_images')
                  /\ \A i \in 1..Len(swapchain_images') :
                        /\ swapchain_images'[i].extent = swapchain'.image_extent
                        /\ swapchain_image_views'[i].image = swapchain_images'[i]
                  /\ current_resolution' = parameters.resolution
                  /\ pipelines' = pipelines
                  /\ registry' = registry
                  /\ current_bsp' = current_bsp
                  /\ future' = future
      ]_vars

\* C19 witness: the swapchain of a renderer constructed without vsync, which
\* holds a BSP and has drawn a frame, has been rebuilt at 320 x 240.
C19_Witness ==
    /\ last.op = "rebuild_swapchain"
    /\ last.result = "Ok"
    /\ swapchain.present_mode = "Immediate"
    /\ swapchain.image_extent = <<320, 240>>
    /\ current_resolution = [width |-> 320, height |-> 240]
    /\ DOMAIN bsps # {}
    /\ future = Some("fence")

\* C20: the ColorBox pipeline of a renderer has depth access NoDepth, its
\* depth compare is "always" and it does not write depth; every box is drawn
\* with that pipeline bound.
C20_ColorBoxNoDepth ==
    Constructed =>
        /\ pipelines["ColorBox"].depth_access = "NoDepth"
        /\ pipelines["ColorBox"].depth.compare_op = "Always"
        /\ ~pipelines["ColorBox"].depth.write_enable
        /\ \A k \in Positions(IsBoxDraw) : PipelineBoundAt(k) = "ColorBox"

-----------------------------------------------------------------------------
(* C21: the depth state of load_pipeline. *)

\* C21: a pipeline loaded with depth access DepthWrite compares with <= and
\* writes depth; with DepthReadOnly it compares with == and does not write;
\* with DepthReadOnlyTransparent it compares with <= and does not write; with
\* NoDepth it always passes and does not write.  Depth is written by the
\* DepthWrite pipelines and by no other.
C21_DepthStateTable ==
    \A type \in DOMAIN pipelines :
        LET p == pipelines[type]
        IN  /\ p.depth_access = "DepthWrite" =>
                  p.depth = [write_enable |-> TRUE, compare_op |-> "LessOrEqual"]
            /\ p.depth_access = "DepthReadOnly" =>
                  p.depth = [write_enable |-> FALSE, compare_op |-> "Equal"]
            /\ p.depth_access = "DepthReadOnlyTransparent" =>
                  p.depth = [write_enable |-> FALSE, compare_op |-> "LessOrEqual"]
            /\ p.depth_access = "NoDepth" =>
                  p.depth = [write_enable |-> FALSE, compare_op |-> "Always"]
            /\ p.depth.write_enable <=> p.depth_access = "DepthWrite"

\* Pipelines of the two read-only modes have been loaded.
C21_Witness ==
    /\ last.op = "load_pipeline"
    /\ DOMAIN pipelines = VulkanPipelineTypes
    /\ pipelines["ColorBox"].depth_access = "DepthReadOnly"
    /\ pipelines["SimpleTexture"].depth_access = "DepthReadOnlyTransparent"

-----------------------------------------------------------------------------
(* C22 to C24: the pipeline and the descriptor sets of a geometry draw. *)

IsBindDescriptorSets(c) == c.cmd = "bind_descriptor_sets"

IsLightmapUpload(c) == IsBindDescriptorSets(c) /\ c.set.kind = "lightmap"

IsMaterialBind(c) == IsBindDescriptorSets(c) /\ c.set.kind = "material"

\* The descriptor set at set number n when the command at position k is
\* recorded: that of the last bind at n before it.
NoSet == [kind |-> "none"]

SetBoundAt(k, n) ==
    LET binds ==
            {j \in Positions(IsBindDescriptorSets) :
                j < k /\ last.commands[j].first_set = n}
    IN  IF binds = {} THEN NoSet
        ELSE last.commands[CHOOSE j \in binds : \A i \in binds : i <= j].set

DesiredLightmapAt(k) ==
    IF player_viewports[last.commands[k].viewport].camera.fullbright THEN None
    ELSE CurrentlyLoadedBsp.geometries[last.commands[k].geometry].lightmap_index

\* The geometry draws of the viewport of the draw at position k that come
\* before it.
EarlierDraws(k) ==
    {j \in Positions(IsGeometryDraw) :
        j < k /\ last.commands[j].viewport = last.commands[k].viewport}

\* The lightmap uploads of the viewport of the draw at position k that come
\* before it and after the viewport's earlier draws.
UploadsFor(k) ==
    {j \in Positions(IsLightmapUpload) :
        /\ j < k
        /\ last.commands[j].viewport = last.commands[k].viewport
        /\ \A i \in EarlierDraws(k) : i < j}

\* The lightmap uploads of the viewport of the draw at position k that come
\* before it.
EarlierUploads(k) ==
    {j \in Positions(IsLightmapUpload) :
        j < k /\ last.commands[j].viewport = last.commands[k].viewport}

-----------------------------------------------------------------------------
\* C27: every frame that is submitted is submitted on the join of the
\* in-flight future the renderer held, which is there, with the acquire
\* future of the frame, the execution first and the present after it; the
\* renderer then holds at most one in-flight future, the fence of this
\* submission when the present succeeded.
C27_FrameChaining ==
    [][(last'.op = "draw_frame" /\ IsSome(last'.submitted)) =>
          LET submission == Unwrap(last'.submitted)
          IN  /\ IsSome(future)
              /\ submission.join = <<Unwrap(future), "acquire_future">>
              /\ \E e, p \in 1..Len(submission.then) :
                    /\ e < p
                    /\ submission.then[e] = "execute"
                    /\ submission.then[p] = "swapchain_present"
              /\ Len(future') <= 1
              /\ last'.result \in {"true", "false"} => IsSome(future')
              /\ last'.result = "true" => future' = Some("fence")
      ]_vars

\* C27 witness: a frame has been submitted on the fence of the frame before
\* it and has left its own fence.
C27_Witness ==
    /\ last.op = "draw_frame"
    /\ last.result = "true"
    /\ IsSome(last.submitted)
    /\ Unwrap(last.submitted).join = <<"fence", "acquire_future">>
    /\ future = Some("fence")

-----------------------------------------------------------------------------
-----------------------------------------------------------------------------
(* C25: the physical device chosen. *)

\* The device types from the most to the least preferred.
PreferredTypes == <<"DiscreteGpu", "IntegratedGpu", "VirtualGpu", "Cpu", "Other">>

Preference(device_type) ==
    CHOOSE i \in 1..Len(PreferredTypes) : PreferredTypes[i] = device_type

\* The device supports dynamic rendering, the extended dynamic state and,
\* when anisotropic filtering is asked for, sampler anisotropy; it supports
\* the swapchain extension; one of its queue families has graphics and can
\* present to the surface.
Eligible(d, anisotropic_filtering) ==
    /\ {"dynamic_rendering", "extended_dynamic_state"} \subseteq d.supported_features
    /\ anisotropic_filtering => "sampler_anisotropy" \in d.supported_features
    /\ "khr_swapchain" \in d.supported_extensions
    /\ \E i \in 1..Len(d.queue_families) :
          d.queue_families[i].graphics /\ d.queue_families[i].present

\* C25: the physical device of a renderer that Renderer::new has
\* constructed is eligible, the queue family returned is one of its families
\* that has graphics and can present, and no eligible device of the machine
\* is of a more preferred type; on a machine without an eligible device
\* Renderer::new with a valid number of viewports returns a graphics API
\* error.
C25_GpuSelection ==
    [][last'.op = "new" =>
          \A parameters \in RendererParameters,
             surface_min_image_count \in SurfaceMinImageCounts,
             anisotropic_filtering \in BOOLEAN,
             backend_result \in BackendResults :
              New(parameters, surface_min_image_count, anisotropic_filtering,
                  backend_result) =>
                  LET eligible ==
                          {i \in 1..Len(physical_devices) :
                              Eligible(physical_devices[i], anisotropic_filtering)}
                  IN  /\ last'.result = "Ok" =>
                            /\ device'.physical_device \in eligible
                            /\ LET chosen == physical_devices[device'.physical_device]
                                    family == device'.queue_family_index + 1
                                IN  /\ family \in 1..Len(chosen.queue_families)
                                    /\ chosen.queue_families[family].graphics
                                    /\ chosen.queue_families[family].present
                                    /\ \A j \in eligible :
                                          Preference(chosen.device_type)
                                             <= Preference(physical_devices[j].device_type)
                      /\ (/\ eligible = {}
                          /\ parameters.number_of_viewports
                                \in MinViewports..MaxViewports)
                            => last'.result = "GraphicsAPIError"
      ]_vars

-----------------------------------------------------------------------------
(* C26: the sky box of a viewport. *)

\* The camera of viewport v is in a cluster of the current BSP that names a
\* sky.
InClusterWithSky(v) ==
    LET clusters == CurrentlyLoadedBsp.clusters
        cluster_index == FindCluster(clusters, player_viewports[v].camera.position)
    IN  IsSome(cluster_index) /\ IsSome(clusters[Unwrap(cluster_index)].sky)

\* The sky that cluster names.
SkyOfCluster(v) ==
    LET clusters == CurrentlyLoadedBsp.clusters
        cluster_index == FindCluster(clusters, player_viewports[v].camera.position)
    IN  Unwrap(clusters[Unwrap(cluster_index)].sky)

-----------------------------------------------------------------------------
\* C29: draw_frame returns true exactly when the acquire reported Ok, the
\* frame was recorded and the present succeeded; after a suboptimal acquire
\* the frame is recorded, submitted and presented and the in-flight future
\* becomes its fence, and draw_frame returns false.
C29_DrawFrameResult ==
    [][last'.op = "draw_frame" =>
          \A acquire \in AcquireResults, present \in PresentResults :
              DrawFrame(acquire, present) =>
                  /\ last'.result = "true" <=>
                        /\ acquire = "Ok"
                        /\ ~NoShaderPanic
                        /\ IsSome(future)
                        /\ present = "Ok"
                  /\ (/\ acquire = "Suboptimal"
                      /\ ~NoShaderPanic
                      /\ IsSome(future)
                      /\ present = "Ok")
                        => /\ last'.result = "false"
                           /\ last'.commands = FrameCommands
                           /\ IsSome(last'.submitted)
                           /\ future' = Some("fence")
      ]_vars

\* C29 witness: a frame drawn from a registry with a current BSP was
\* submitted and left its fence, and draw_frame returned false.
C29_Witness ==
    /\ last.op = "draw_frame"
    /\ last.result = "false"
    /\ IsSome(last.submitted)
    /\ future = Some("fence")
    /\ IsSome(current_bsp)

\* C30: a rebuild_swapchain whose Swapchain::recreate fails returns the
\* graphics API error and leaves the swapchain, its images, the image views
\* and current_resolution as they were: there are as many views as images,
\* each the view of its image, of the extent of the swapchain.
C30_RebuildSwapchainFails ==
    [][(last'.op = "rebuild_swapchain" /\ last'.result # "Ok") =>
          \A parameters \in RendererParameters :
              RebuildSwapchain(parameters, FALSE) =>
                  /\ last'.result = "GraphicsAPIError"
                  /\ swapchain' = swapchain
                  /\ swapchain_images' = swapchain_images
                  /\ swapchain_image_views' = swapchain_image_views
                  /\ current_resolution' = current_resolution
                  /\ Len(swapchain_image_views') = Len(swapchain_images')
                  /\ \A i \in 1..Len(swapchain_images') :
                        /\ swapchain_image_views'[i].image = swapchain_images'[i]
                        /\ swapchain_images'[i].extent = swapchain'.image_extent
                  /\ current_resolution'
                        = [width |-> swapchain'.image_extent[1],
                           height |-> swapchain'.image_extent[2]]
      ]_vars

\* C30 witness: a rebuild has failed on a renderer whose swapchain an
\* earlier rebuild had brought to 320 x 240, and which has drawn a frame.
C30_Witness ==
    /\ last.op = "rebuild_swapchain"
    /\ last.result = "GraphicsAPIError"
    /\ swapchain.image_extent = <<320, 240>>
    /\ current_resolution = [width |-> 320, height |-> 240]
    /\ future = Some("fence")

=============================================================================




